---- MODULE Spec2Model ----
(***************************************************************************)
(* Model of anima.utils.MediaManager: the video thumbnail pipeline         *)
(* (get_video_info, frame-count estimation, three frame extractions, the   *)
(* substitution policy, the composite call and the cleanup), the ffmpeg    *)
(* and ffprobe wrappers, the converters, the dispatch on the file          *)
(* extension, the two uploads and two concurrent calls of the pipeline.    *)
(*                                                                         *)
(* A Python str is a sequence of tokens.  A token is one character the     *)
(* code looks for ("=", "/", ".", "-", a digit, a newline) or a run of     *)
(* other characters written as one TLA+ string ("codec_type", "video").    *)
(* A dict is a function from keys (token sequences) to values.             *)
(* A Python float is an exact fraction [n, d] with d > 0; the field values *)
(* of the model are chosen so that double arithmetic is exact on them.     *)
(***************************************************************************)
EXTENDS Integers, Sequences, FiniteSets, TLC

\* ------------------------------------------------------------------ bounds
\* longest stream list a well-formed probe output of the pipeline describes
MaxStreams == 2
\* longest raw line sequence fed to the parser alone
MaxLines == 4

\* ------------------------------------------------------- Python str helpers
Digits == {"0", "1", "2", "3", "4", "5", "6", "7", "8", "9"}

DigitVal(c) ==
    CASE c = "0" -> 0 [] c = "1" -> 1 [] c = "2" -> 2 [] c = "3" -> 3
      [] c = "4" -> 4 [] c = "5" -> 5 [] c = "6" -> 6 [] c = "7" -> 7
      [] c = "8" -> 8 [] c = "9" -> 9

Whitespace == {"\n", " "}

\* str.strip(): drops leading and trailing whitespace
RECURSIVE LStrip(_)
LStrip(s) ==
    IF s # <<>> /\ Head(s) \in Whitespace THEN LStrip(Tail(s)) ELSE s

RECURSIVE RStrip(_)
RStrip(s) ==
    IF s # <<>> /\ s[Len(s)] \in Whitespace
    THEN RStrip(SubSeq(s, 1, Len(s) - 1))
    ELSE s

Strip(s) == RStrip(LStrip(s))

\* sep in s
Contains(s, sep) == \E i \in 1..Len(s) : s[i] = sep

\* s.split(sep): the pieces between ALL occurrences of sep
RECURSIVE SplitFrom(_, _, _, _)
SplitFrom(s, sep, cur, acc) ==
    IF s = <<>> THEN Append(acc, cur)
    ELSE IF Head(s) = sep THEN SplitFrom(Tail(s), sep, <<>>, Append(acc, cur))
    ELSE SplitFrom(Tail(s), sep, Append(cur, Head(s)), acc)

Split(s, sep) == SplitFrom(s, sep, <<>>, <<>>)

\* d[k] = v on a dict
DictSet(d, k, v) ==
    [x \in (DOMAIN d) \cup {k} |-> IF x = k THEN v ELSE d[x]]

EmptyDict == [x \in {} |-> <<>>]

\* ------------------------------------------------------------------ errors
NoError == "none"
IndexErrorPop == "IndexError: pop from empty list"
ValueErrorUnpack == "ValueError: too many values to unpack"
KeyErrorCodecType == "KeyError: 'codec_type'"
AttributeErrorNoneGet == "AttributeError: 'NoneType' object has no attribute 'get'"
TypeErrorFloatNone == "TypeError: float() argument must be a string or a number"
TypeErrorStrTimesFloat == "TypeError: can't multiply sequence by non-int of type 'float'"
ValueErrorFloat == "ValueError: could not convert string to float"
ValueErrorInt == "ValueError: invalid literal for int() with base 10"
ZeroDivision == "ZeroDivisionError: float division by zero"

\* ------------------------------------------------------------ Python values
\* None, a str, a float and a dict where the code may hold any of them
None == [t |-> "None"]
PyStr(s) == [t |-> "str", s |-> s]
PyFloat(n, d) == [t |-> "float", n |-> n, d |-> d]
PyDict(d) == [t |-> "dict", d |-> d]

\* --------------------------------------------------------- get_video_info
STREAM_OPEN == <<"[STREAM]">>
STREAM_CLOSE == <<"[/STREAM]">>
FORMAT_OPEN == <<"[FORMAT]">>
FORMAT_CLOSE == <<"[/FORMAT]">>

\* The two nested loops of lines 687-703 and 710-724.  `line` is the current
\* stripped line, `buf` the rest of output_buffer, `rec` the dict the block
\* fills, `acc` what has been collected.  The result is [err, rec, acc].
\* openTag/closeTag select the STREAM or the FORMAT loop; the STREAM loop
\* appends a copy and resets the dict, the FORMAT loop keeps filling the one
\* video_info dict and publishes it.
RECURSIVE ScanBlock(_, _, _, _, _, _), ScanLine(_, _, _, _, _, _), PopNext(_, _, _, _, _)

\* the inner while (691-695 / 714-718): runs until closeTag is the line
ScanBlock(line, buf, rec, acc, openTag, closeTag) ==
    IF line = closeTag
    THEN \* block closed: lines 697-699 / 720
         IF openTag = STREAM_OPEN
         THEN PopNext(buf, EmptyDict, Append(acc, rec), openTag, closeTag)
         ELSE PopNext(buf, rec, <<rec>>, openTag, closeTag)
    ELSE IF Contains(line, "=") /\ Len(Split(line, "=")) # 2
    THEN \* flag, value = line.split('=') with more than two pieces
         [err |-> ValueErrorUnpack, rec |-> rec, acc |-> acc]
    ELSE LET rec2 == IF Contains(line, "=")
                     THEN DictSet(rec, Split(line, "=")[1], Split(line, "=")[2])
                     ELSE rec
         IN  IF buf = <<>>
             THEN \* output_buffer.pop(0) of line 695 / 718 is not guarded
                  [err |-> IndexErrorPop, rec |-> rec2, acc |-> acc]
             ELSE ScanBlock(Strip(Head(buf)), Tail(buf), rec2, acc,
                            openTag, closeTag)

\* one turn of the outer while (688-689 / 711-712) on a popped line
ScanLine(line, buf, rec, acc, openTag, closeTag) ==
    IF line = openTag
    THEN ScanBlock(line, buf, rec, acc, openTag, closeTag)
    ELSE PopNext(buf, rec, acc, openTag, closeTag)

\* the guarded pop of lines 700-703 / 721-724: IndexError ends the loop
PopNext(buf, rec, acc, openTag, closeTag) ==
    IF buf = <<>>
    THEN [err |-> NoError, rec |-> rec, acc |-> acc]
    ELSE ScanLine(Strip(Head(buf)), Tail(buf), rec, acc, openTag, closeTag)

\* lines 686-703: the first pop of line 687 is not guarded
ParseStreams(output_buffer) ==
    IF output_buffer = <<>>
    THEN [err |-> IndexErrorPop, rec |-> EmptyDict, acc |-> <<>>]
    ELSE ScanLine(Strip(Head(output_buffer)), Tail(output_buffer),
                  EmptyDict, <<>>, STREAM_OPEN, STREAM_CLOSE)

\* lines 705-724: acc is <<>> while media_info['video_info'] is still None
ParseFormat(output_buffer) ==
    IF output_buffer = <<>>
    THEN [err |-> IndexErrorPop, rec |-> EmptyDict, acc |-> <<>>]
    ELSE ScanLine(Strip(Head(output_buffer)), Tail(output_buffer),
                  EmptyDict, <<>>, FORMAT_OPEN, FORMAT_CLOSE)

\* get_video_info on the two probe outputs: [err, video_info, stream_info]
get_video_info(stream_out, format_out) ==
    LET s == ParseStreams(stream_out)
        f == ParseFormat(format_out)
    IN  IF s.err # NoError
        THEN [err |-> s.err, video_info |-> None, stream_info |-> <<>>]
        ELSE IF f.err # NoError
        THEN [err |-> f.err, video_info |-> None, stream_info |-> <<>>]
        ELSE [err |-> NoError,
              video_info |-> IF f.acc = <<>> THEN None
                             ELSE PyDict(f.acc[1]),
              stream_info |-> s.acc]

\* ------------------------------------------------------ int() and float()
IsDigits(s) == s # <<>> /\ \A i \in 1..Len(s) : s[i] \in Digits

RECURSIVE DigitsValue(_)
DigitsValue(s) ==
    IF s = <<>> THEN 0
    ELSE 10 * DigitsValue(SubSeq(s, 1, Len(s) - 1)) + DigitVal(s[Len(s)])

RECURSIVE Pow10(_)
Pow10(k) == IF k = 0 THEN 1 ELSE 10 * Pow10(k - 1)

\* int(str): an optional '-' and decimal digits; [ok, v]
ParseInt(s) ==
    LET neg == s # <<>> /\ Head(s) = "-"
        body == IF neg THEN Tail(s) ELSE s
    IN  IF IsDigits(body)
        THEN [ok |-> TRUE,
              v |-> IF neg THEN 0 - DigitsValue(body) ELSE DigitsValue(body)]
        ELSE [ok |-> FALSE, v |-> 0]

\* float(str): an optional '-', digits, an optional '.' and digits;
\* [ok, n, d] with the value n / d
ParseFloat(s) ==
    LET neg == s # <<>> /\ Head(s) = "-"
        body == IF neg THEN Tail(s) ELSE s
        parts == Split(body, ".")
        ip == parts[1]
        fp == IF Len(parts) = 2 THEN parts[2] ELSE <<>>
        wellFormed == /\ Len(parts) \in {1, 2}
                      /\ ip \o fp # <<>>
                      /\ \A i \in 1..Len(ip \o fp) : (ip \o fp)[i] \in Digits
        mag == DigitsValue(ip \o fp)
    IN  IF wellFormed
        THEN [ok |-> TRUE, n |-> IF neg THEN 0 - mag ELSE mag,
              d |-> Pow10(Len(fp))]
        ELSE [ok |-> FALSE, n |-> 0, d |-> 1]

\* int(float): truncation toward zero
IntOfFloat(n, d) == IF n >= 0 THEN n \div d ELSE 0 - ((0 - n) \div d)

\* dict.get(key, default) with the values wrapped as Python str
DictGet(d, k, default) == IF k \in DOMAIN d THEN PyStr(d[k]) ELSE default

NA == <<"N", "/", "A">>

\* float(x) for a Python value x: [err, n, d]
FloatOf(x) ==
    IF x.t = "None" THEN [err |-> TypeErrorFloatNone, n |-> 0, d |-> 1]
    ELSE IF x.t = "float" THEN [err |-> NoError, n |-> x.n, d |-> x.d]
    ELSE LET f == ParseFloat(x.s)
         IN  IF f.ok THEN [err |-> NoError, n |-> f.n, d |-> f.d]
             ELSE [err |-> ValueErrorFloat, n |-> 0, d |-> 1]

\* ---------------------------------------------- frame-count estimation
\* variant: the loop stops at the first video record
RECURSIVE SelectVideoStream_Break(_, _)
SelectVideoStream_Break(streams, video_stream) ==
    IF streams = <<>> THEN [err |-> NoError, video_stream |-> video_stream]
    ELSE IF <<"codec_type">> \notin DOMAIN Head(streams)
    THEN [err |-> KeyErrorCodecType, video_stream |-> video_stream]
    ELSE IF Head(streams)[<<"codec_type">>] = <<"video">>
    THEN [err |-> NoError, video_stream |-> PyDict(Head(streams))]
    ELSE SelectVideoStream_Break(Tail(streams), video_stream)

\* lines 463-467: the loop has no break, every video record overwrites
\* video_stream; stream['codec_type'] raises KeyError on a record without it
RECURSIVE SelectVideoStream(_, _)
SelectVideoStream(streams, video_stream) ==
    IF streams = <<>> THEN [err |-> NoError, video_stream |-> video_stream]
    ELSE IF <<"codec_type">> \notin DOMAIN Head(streams)
    THEN [err |-> KeyErrorCodecType, video_stream |-> video_stream]
    ELSE IF Head(streams)[<<"codec_type">>] = <<"video">>
    THEN SelectVideoStream(Tail(streams), PyDict(Head(streams)))
    ELSE SelectVideoStream(Tail(streams), video_stream)

\* lines 473-483: [err, v] where v is the Python value left in frame_rate
FrameRateOf(video_stream, video_info) ==
    LET frame_rate == DictGet(video_stream.d, <<"r_frame_rate">>, None)
    IN  IF frame_rate.t = "None"
        THEN IF video_info.t = "None"
             THEN [err |-> AttributeErrorNoneGet, v |-> None]
             ELSE LET f == FloatOf(DictGet(video_info.d, <<"TAG:framerate">>,
                                           PyFloat(23976, 1000)))
                  IN  [err |-> f.err, v |-> PyFloat(f.n, f.d)]
        ELSE IF Contains(frame_rate.s, "/")
        THEN LET parts == Split(frame_rate.s, "/")
                 nominator == FloatOf(PyStr(parts[1]))
                 denominator == FloatOf(PyStr(parts[2]))
             IN  IF Len(parts) # 2 THEN [err |-> ValueErrorUnpack, v |-> None]
                 ELSE IF nominator.err # NoError
                 THEN [err |-> nominator.err, v |-> None]
                 ELSE IF denominator.err # NoError
                 THEN [err |-> denominator.err, v |-> None]
                 ELSE IF denominator.n = 0
                 THEN [err |-> ZeroDivision, v |-> None]
                 ELSE IF denominator.n > 0
                 THEN [err |-> NoError,
                       v |-> PyFloat(nominator.n * denominator.d,
                                     nominator.d * denominator.n)]
                 ELSE [err |-> NoError,
                       v |-> PyFloat(0 - nominator.n * denominator.d,
                                     0 - nominator.d * denominator.n)]
        ELSE \* no '/': frame_rate is left as the str it was read as
             [err |-> NoError, v |-> frame_rate]

\* lines 486-490: [err, n, d]
DurationOf(video_stream, video_info) ==
    LET duration == DictGet(video_stream.d, <<"duration">>, None)
    IN  IF duration = PyStr(NA)
        THEN IF video_info.t = "None"
             THEN [err |-> AttributeErrorNoneGet, n |-> 0, d |-> 1]
             ELSE FloatOf(DictGet(video_info.d, <<"duration">>, PyFloat(1, 1)))
        ELSE FloatOf(duration)

\* lines 471-497: nb_frames from duration and frame rate; [err, nb_frames]
DeriveNbFrames(video_stream, video_info) ==
    LET fr == FrameRateOf(video_stream, video_info)
        du == DurationOf(video_stream, video_info)
    IN  IF fr.err # NoError THEN [err |-> fr.err, nb_frames |-> 0]
        ELSE IF du.err # NoError THEN [err |-> du.err, nb_frames |-> 0]
        ELSE IF fr.v.t = "str"
        THEN \* duration * frame_rate, float times str, line 497
             [err |-> TypeErrorStrTimesFloat, nb_frames |-> 0]
        ELSE [err |-> NoError,
              nb_frames |-> IntOfFloat(du.n * fr.v.n, du.d * fr.v.d)]

\* variant: nb_frames of the record is never used
EstimateNbFrames_AlwaysDerive(video_stream, video_info) ==
    IF video_stream.t = "None"
    THEN [err |-> AttributeErrorNoneGet, nb_frames |-> 0]
    ELSE DeriveNbFrames(video_stream, video_info)

\* lines 469-498: [err, nb_frames]
EstimateNbFrames(video_stream, video_info) ==
    IF video_stream.t = "None"
    THEN \* video_stream.get on None, line 469
         [err |-> AttributeErrorNoneGet, nb_frames |-> 0]
    ELSE LET nb == DictGet(video_stream.d, <<"nb_frames">>, None)
         IN  IF nb.t = "None" \/ nb = PyStr(NA)
             THEN DeriveNbFrames(video_stream, video_info)
             ELSE \* int(nb_frames), line 498
                  LET i == ParseInt(nb.s)
                  IN  IF i.ok THEN [err |-> NoError, nb_frames |-> i.v]
                      ELSE [err |-> ValueErrorInt, nb_frames |-> 0]

\* ------------------------------------------------------------ probe outputs
\* a line as readline() returns it
Line(tokens) == tokens \o <<"\n">>
KV(k, v) == <<k, "=">> \o v

\* field values the prober may print
NbFramesValues == {<<"1", "2", "0">>, <<"4", "8">>, NA}
RFrameRateValues == {<<"2", "4", "/", "1">>, <<"2", "4">>}
DurationValues == {<<"1", "0">>, NA}
FormatDurationValues == {<<"2">>}
FormatFramerateValues == {<<"2", "5">>}

\* a field that is printed with one of the values, or not printed
OptField(k, values) == {<<>>} \cup {<<Line(KV(k, v))>> : v \in values}

VideoBlocks ==
    {<<Line(STREAM_OPEN), Line(KV("codec_type", <<"video">>))>>
        \o fr \o du \o nb \o <<Line(STREAM_CLOSE)>> :
        fr \in OptField("r_frame_rate", RFrameRateValues),
        du \in OptField("duration", DurationValues),
        nb \in OptField("nb_frames", NbFramesValues)}

AudioBlocks ==
    {<<Line(STREAM_OPEN), Line(KV("codec_type", <<"audio">>)),
       Line(KV("duration", <<"1", "0">>)), Line(STREAM_CLOSE)>>}

RECURSIVE StreamOutputsOf(_)
StreamOutputsOf(k) ==
    IF k = 0 THEN {<<>>}
    ELSE {o \o b : o \in StreamOutputsOf(k - 1),
                   b \in VideoBlocks \cup AudioBlocks}

BlankLine == <<"\n">>

\* what `ffprobe -show_streams` prints: up to MaxStreams blocks, or nothing
\* but a blank line
StreamOutputs ==
    UNION {StreamOutputsOf(k) : k \in 0..MaxStreams} \cup {<<BlankLine>>}

\* what `ffprobe -show_format` prints: one block, nothing, or a blank line
FormatOutputs ==
    {<<Line(FORMAT_OPEN)>> \o du \o fr \o <<Line(FORMAT_CLOSE)>> :
        du \in OptField("duration", FormatDurationValues),
        fr \in OptField("TAG:framerate", FormatFramerateValues)}
    \cup {<<>>, <<BlankLine>>}

\* field values for the estimator alone: signed numbers and the 0/0 rate the
\* prober prints for a stream without a frame rate
SignedNbFramesValues == {<<"1", "2", "0">>, <<"-", "5">>, NA}
SignedRFrameRateValues ==
    {<<"2", "4", "/", "1">>, <<"2", "4">>, <<"-", "2", "4", "/", "1">>,
     <<"0", "/", "0">>}
SignedDurationValues == {<<"1", "0">>, <<"-", "1", "0">>, NA}

\* probe outputs with exactly one stream block, a video stream
SingleVideoOutputs ==
    {<<Line(STREAM_OPEN), Line(KV("codec_type", <<"video">>))>>
        \o fr \o du \o nb \o <<Line(STREAM_CLOSE)>> :
        fr \in OptField("r_frame_rate", SignedRFrameRateValues),
        du \in OptField("duration", SignedDurationValues),
        nb \in OptField("nb_frames", SignedNbFramesValues)}

\* raw lines for the parser alone: every sequence of at most MaxLines lines
RawLines ==
    {Line(STREAM_OPEN), Line(STREAM_CLOSE),
     Line(KV("codec_type", <<"video">>)),
     Line(KV("TAG:title", <<"a", "=", "b">>)),
     Line(<<"junk">>)}

RECURSIVE RawOutputsOf(_)
RawOutputsOf(k) ==
    IF k = 0 THEN {<<>>}
    ELSE {o \o <<l>> : o \in RawOutputsOf(k - 1), l \in RawLines}

RawStreamOutputs == UNION {RawOutputsOf(k) : k \in 0..MaxLines}

RawFormatOutputs ==
    {<<Line(FORMAT_OPEN), Line(KV("duration", <<"2">>)), Line(FORMAT_CLOSE)>>,
     <<Line(FORMAT_OPEN), Line(KV("TAG:comment", <<"x", "=", "y">>)),
       Line(FORMAT_CLOSE)>>,
     <<Line(FORMAT_OPEN), Line(<<"junk">>), Line(FORMAT_CLOSE)>>}

\* ------------------------------------------------------------------- state
VARIABLES
    pc,               \* where generate_video_thumbnail stands
    error,            \* the exception that ended the call, or NoError
    probe_streams,    \* what ffprobe(show_streams) returned
    probe_format,     \* what ffprobe(show_format) returned
    media_info,       \* the value get_video_info returned
    video_stream,     \* the local video_stream
    nb_frames,        \* the local nb_frames
    tmp_names,        \* number of names tempfile.mktemp has handed out
    allocated,        \* the four names of lines 500-504, as allocated
    start_thumb_path, \* the locals the substitution policy rewrites
    mid_thumb_path,
    end_thumb_path,
    thumbnail_path,
    files,            \* the paths that exist on the filesystem
    extracted,        \* the frame files the three extractions produced
    ffmpeg_calls,     \* number of transcoder invocations so far
    swallowed,        \* number of OSError caught by the cleanup
    result,           \* the value returned
    start_frame,      \* the locals of lines 507-509
    mid_frame,
    end_frame,
    call_pc,          \* where a call of ffmpeg() or ffprobe() stands
    call_error,       \* the exception that ended that call, or NoError
    tool,             \* which of the two wrappers was called
    kwargs,           \* the keyword arguments of the call
    args,             \* the argument vector handed to subprocess.Popen
    spawned,          \* number of child processes spawned so far
    process,          \* the child: its pipe, what it wrote, its exit status
    stderr_buffer,    \* the lines read so far (stdout_buffer in ffprobe)
    call_result,      \* the value the wrapper returned
    conv_pc,          \* where a call of a convert_to_* method stands
    conv_error,       \* the exception that ended that call, or NoError
    converter,        \* the method called and its arguments
    output_path,      \* its local output_path
    conv_result,      \* the value it returned
    gen_pc,           \* where generate_thumbnail / generate_media_for_web stands
    gen_error,        \* the exception that ended that call, or NoError
    entry,            \* which of the two was called
    file_full_path,   \* its argument
    route,            \* the method it dispatched to
    gen_result,       \* the value it returned
    up_pc,            \* where upload_reference / upload_version_output stands
    up_error,         \* the exception that ended that call, or NoError
    upload,           \* the method called and its filename argument
    web_outcome,      \* how generate_media_for_web ended in that call
    thumb_outcome,    \* how generate_thumbnail ended in that call
    link,             \* the locals link, web_version_link, thumbnail_link
    web_version_link,
    thumbnail_link,
    thumbnail,        \* the thumbnail attribute of each Link
    parent,           \* task.references / version.outputs
    up_result,        \* the value returned
    invocations       \* the concurrent calls of generate_video_thumbnail:
                      \* where each one is and the paths it holds

vars == <<pc, error, probe_streams, probe_format, media_info, video_stream,
          nb_frames, tmp_names, allocated, start_thumb_path, mid_thumb_path,
          end_thumb_path, thumbnail_path, files, extracted, ffmpeg_calls,
          swallowed, result, start_frame, mid_frame, end_frame,
          call_pc, call_error, tool, kwargs, args, spawned, process,
          stderr_buffer, call_result, conv_pc, conv_error, converter,
          output_path, conv_result, gen_pc, gen_error, entry,
          file_full_path, route, gen_result, up_pc, up_error, upload,
          web_outcome, thumb_outcome, link, web_version_link,
          thumbnail_link, thumbnail, parent, up_result, invocations>>

probeVars == <<probe_streams, probe_format, media_info, video_stream,
               nb_frames>>
pathVars == <<tmp_names, allocated, start_thumb_path, mid_thumb_path,
              end_thumb_path, thumbnail_path>>
fsVars == <<files, extracted, ffmpeg_calls, swallowed, result>>
planVars == <<start_frame, mid_frame, end_frame>>
callVars == <<call_pc, call_error, tool, kwargs, args, spawned, process,
              stderr_buffer, call_result>>
convVars == <<conv_pc, conv_error, converter, output_path, conv_result>>
dispatchVars == <<gen_pc, gen_error, entry, file_full_path, route,
                  gen_result>>
\* the state of the callers of the pipeline, the wrappers and the converters
uploadVars == <<up_pc, up_error, upload, web_outcome, thumb_outcome, link,
                web_version_link, thumbnail_link, thumbnail, parent,
                up_result>>
outerVars == <<dispatchVars, uploadVars, invocations>>
\* the state of generate_video_thumbnail
thumbVars == <<pc, error, probeVars, pathVars, fsVars, planVars>>

\* an unbound local
Unbound == [t |-> "unbound"]
\* the Link objects one upload creates, by the name of the local that holds
\* them; NoLink is None
Links == {"link", "web_version_link", "thumbnail_link"}
NoLink == "None"
NoPath == 0
\* two calls of generate_video_thumbnail running at the same time
Invocations == {1, 2}

Init ==
    /\ pc = "get_video_info"
    /\ error = NoError
    /\ probe_streams = Unbound
    /\ probe_format = Unbound
    /\ media_info = Unbound
    /\ video_stream = Unbound
    /\ nb_frames = 0
    /\ tmp_names = 0
    /\ allocated = <<>>
    /\ start_thumb_path = NoPath
    /\ mid_thumb_path = NoPath
    /\ end_thumb_path = NoPath
    /\ thumbnail_path = NoPath
    /\ files = {}
    /\ extracted = {}
    /\ ffmpeg_calls = 0
    /\ swallowed = 0
    /\ result = NoPath
    /\ start_frame = 0
    /\ mid_frame = 0
    /\ end_frame = 0
    /\ call_pc = "idle"
    /\ call_error = NoError
    /\ tool = "none"
    /\ kwargs = <<>>
    /\ args = <<>>
    /\ spawned = 0
    /\ process = None
    /\ stderr_buffer = <<>>
    /\ call_result = None
    /\ conv_pc = "idle"
    /\ conv_error = NoError
    /\ converter = None
    /\ output_path = None
    /\ conv_result = None
    /\ gen_pc = "idle"
    /\ gen_error = NoError
    /\ entry = "none"
    /\ file_full_path = <<>>
    /\ route = "none"
    /\ gen_result = NoPath
    /\ up_pc = "idle"
    /\ up_error = NoError
    /\ upload = None
    /\ web_outcome = "none"
    /\ thumb_outcome = "none"
    /\ link = NoLink
    /\ web_version_link = NoLink
    /\ thumbnail_link = NoLink
    /\ thumbnail = [l \in Links |-> NoLink]
    /\ parent = <<>>
    /\ up_result = NoLink
    /\ invocations = [i \in Invocations |-> [pc |-> "idle", paths |-> <<>>,
                                             calls |-> 0]]

\* raise: the exception propagates out of generate_video_thumbnail
Raise(e) == pc' = "raised" /\ error' = e

\* line 460 with the two ffprobe calls of get_video_info (675, 706)
\* most [FORMAT] blocks in a format output
MaxFormatBlocks == 2

\* the fields one [FORMAT] block may hold
FormatBodies ==
    {du \o fr \o br :
        du \in OptField("duration", {<<"2">>, <<"3">>}),
        fr \in OptField("TAG:framerate", FormatFramerateValues),
        br \in OptField("bit_rate", {<<"9">>})}

\* format outputs of exactly k blocks
RECURSIVE FormatBlocksOf(_)
FormatBlocksOf(k) ==
    IF k = 0 THEN {<<>>}
    ELSE {o \o <<Line(FORMAT_OPEN)>> \o b \o <<Line(FORMAT_CLOSE)>> :
             o \in FormatBlocksOf(k - 1), b \in FormatBodies}

\* format outputs of one to MaxFormatBlocks blocks
MultiFormatOutputs == UNION {FormatBlocksOf(k) : k \in 1..MaxFormatBlocks}

\* probe output of a file with one video stream
OneVideoStream ==
    {<<Line(STREAM_OPEN), Line(KV("codec_type", <<"video">>)),
       Line(KV("nb_frames", <<"4", "8">>)), Line(STREAM_CLOSE)>>,
     <<Line(STREAM_OPEN), Line(KV("codec_type", <<"video">>)),
       Line(KV("nb_frames", NA)), Line(STREAM_CLOSE)>>}

GetVideoInfoFrom(streamOutputs, formatOutputs) ==
    /\ pc = "get_video_info"
    /\ \E so \in streamOutputs, fo \in formatOutputs :
          LET r == get_video_info(so, fo)
          IN  /\ probe_streams' = so
              /\ probe_format' = fo
              /\ IF r.err # NoError
                 THEN /\ Raise(r.err)
                      /\ media_info' = media_info
                 ELSE /\ pc' = "select_stream"
                      /\ error' = error
                      /\ media_info' = [video_info |-> r.video_info,
                                        stream_info |-> r.stream_info]
    /\ UNCHANGED <<video_stream, nb_frames>>
    /\ UNCHANGED pathVars
    /\ UNCHANGED fsVars
    /\ UNCHANGED planVars
    /\ UNCHANGED callVars
    /\ UNCHANGED convVars
    /\ UNCHANGED outerVars

GetVideoInfo == GetVideoInfoFrom(StreamOutputs, FormatOutputs)

\* the same call on arbitrary line sequences
GetVideoInfoRaw == GetVideoInfoFrom(RawStreamOutputs, RawFormatOutputs)

\* largest frame count the prober prints in the frame-plan specification
MaxFrameCount == 40

\* the decimal digits of a frame count, as the prober prints them
RECURSIVE Decimal(_)
Decimal(n) ==
    LET digit == CHOOSE c \in Digits : DigitVal(c) = n % 10
    IN  IF n < 10 THEN <<digit>> ELSE Append(Decimal(n \div 10), digit)

\* probe outputs of one video stream with every frame count up to
\* MaxFrameCount
CountedOutputs ==
    {<<Line(STREAM_OPEN), Line(KV("codec_type", <<"video">>)),
       Line(KV("nb_frames", Decimal(n))), Line(STREAM_CLOSE)>> :
        n \in 0..MaxFrameCount}

\* the same call on a file whose stream states its frame count
GetVideoInfoCounted ==
    GetVideoInfoFrom(CountedOutputs,
                     {<<Line(FORMAT_OPEN), Line(FORMAT_CLOSE)>>})

\* the same call on format outputs of several blocks
GetVideoInfoMultiFormat == GetVideoInfoFrom(OneVideoStream, MultiFormatOutputs)

\* the same call on a file with one video stream and signed field values
GetVideoInfoSingle == GetVideoInfoFrom(SingleVideoOutputs, FormatOutputs)

\* lines 463-467
SelectStream ==
    /\ pc = "select_stream"
    /\ LET r == SelectVideoStream(media_info.stream_info, None)
       IN  IF r.err # NoError
           THEN Raise(r.err) /\ video_stream' = video_stream
           ELSE /\ pc' = "estimate"
                /\ error' = error
                /\ video_stream' = r.video_stream
    /\ UNCHANGED <<probe_streams, probe_format, media_info, nb_frames>>
    /\ UNCHANGED pathVars
    /\ UNCHANGED fsVars
    /\ UNCHANGED planVars
    /\ UNCHANGED callVars
    /\ UNCHANGED convVars
    /\ UNCHANGED outerVars

\* lines 469-498
EstimateFrames ==
    /\ pc = "estimate"
    /\ LET r == EstimateNbFrames(video_stream, media_info.video_info)
       IN  IF r.err # NoError
           THEN Raise(r.err) /\ nb_frames' = nb_frames
           ELSE /\ pc' = "allocate"
                /\ error' = error
                /\ nb_frames' = r.nb_frames
    /\ UNCHANGED <<probe_streams, probe_format, media_info, video_stream>>
    /\ UNCHANGED pathVars
    /\ UNCHANGED fsVars
    /\ UNCHANGED planVars
    /\ UNCHANGED callVars
    /\ UNCHANGED convVars
    /\ UNCHANGED outerVars

\* ------------------------------------------------------------- filesystem
\* tempfile.mktemp handing out again the names of the call before
Mktemp_Recycled(n) == (n % 4) + 1

\* tempfile.mktemp: a name no earlier call returned and no file has (the
\* random 8-character names are taken as fresh)
Mktemp(n) == n + 1

\* os.path.exists
Exists(path, fs) == path \in fs

\* os.remove: deletes the file, OSError when there is none
Remove(path, fs) == [files |-> fs \ {path}, oserror |-> path \notin fs]

\* variant: the end index is not moved back by one
FramePlan_EndNotMovedBack(F) ==
    <<IntOfFloat(F, 10), IntOfFloat(F, 2), IntOfFloat(9 * F, 10)>>

\* lines 507-509: int(nb_frames * 0.10), int(nb_frames * 0.5) and
\* int(nb_frames * 0.90) - 1; int() truncates toward zero
FramePlan(F) ==
    <<IntOfFloat(F, 10), IntOfFloat(F, 2), IntOfFloat(9 * F, 10) - 1>>

\* lines 500-509.  media_info, video_info and video_stream are not read
\* after line 498: the model stops tracking them (and the probe outputs
\* they were parsed from) here.
Allocate ==
    /\ pc = "allocate"
    /\ LET s == Mktemp(tmp_names)
           m == Mktemp(tmp_names + 1)
           e == Mktemp(tmp_names + 2)
           t == Mktemp(tmp_names + 3)
       IN  /\ start_thumb_path' = s
           /\ mid_thumb_path' = m
           /\ end_thumb_path' = e
           /\ thumbnail_path' = t
           /\ allocated' = <<s, m, e, t>>
           /\ tmp_names' = tmp_names + 4
    /\ probe_streams' = Unbound
    /\ probe_format' = Unbound
    /\ media_info' = Unbound
    /\ video_stream' = Unbound
    /\ start_frame' = FramePlan(nb_frames)[1]
    /\ mid_frame' = FramePlan(nb_frames)[2]
    /\ end_frame' = FramePlan(nb_frames)[3]
    /\ pc' = "extract_start"
    /\ UNCHANGED <<error, nb_frames>>
    /\ UNCHANGED fsVars
    /\ UNCHANGED callVars
    /\ UNCHANGED convVars
    /\ UNCHANGED outerVars

\* one frame extraction: a transcoder call that leaves the output file or
\* leaves nothing; ffmpeg() returns normally either way (lines 777-796)
Extract(path, next) ==
    /\ ffmpeg_calls' = ffmpeg_calls + 1
    /\ \E produced \in BOOLEAN :
          /\ files' = IF produced THEN files \cup {path} ELSE files
          /\ extracted' = IF produced THEN extracted \cup {path} ELSE extracted
    /\ pc' = next
    /\ UNCHANGED <<error, swallowed, result>>
    /\ UNCHANGED probeVars
    /\ UNCHANGED pathVars
    /\ UNCHANGED planVars
    /\ UNCHANGED callVars
    /\ UNCHANGED convVars
    /\ UNCHANGED outerVars

\* lines 511-517
ExtractStart == pc = "extract_start" /\ Extract(start_thumb_path, "extract_mid")
\* lines 518-524
ExtractMid == pc = "extract_mid" /\ Extract(mid_thumb_path, "extract_end")
\* lines 525-531
ExtractEnd == pc = "extract_end" /\ Extract(end_thumb_path, "substitute")

\* variant: the end frame is preferred over the mid frame
CheckStart_EndFirst(p, fs) ==
    IF ~Exists(p[1], fs)
    THEN IF Exists(p[3], fs) THEN <<p[3], p[3], p[3]>>
         ELSE IF Exists(p[2], fs) THEN <<p[2], p[2], p[3]>>
         ELSE p
    ELSE p

\* lines 534-539 on <<start, mid, end>>
CheckStart(p, fs) ==
    IF ~Exists(p[1], fs)
    THEN IF Exists(p[2], fs) THEN <<p[2], p[2], p[3]>>
         ELSE IF Exists(p[3], fs) THEN <<p[3], p[3], p[3]>>
         ELSE p
    ELSE p

\* variant: mid takes the start frame whenever there is one
CheckMid_StartFirst(p, fs) ==
    IF Exists(p[1], fs) THEN <<p[1], p[1], p[3]>>
    ELSE IF ~Exists(p[2], fs) THEN <<p[3], p[3], p[3]>>
    ELSE p

\* lines 541-546
CheckMid(p, fs) ==
    IF ~Exists(p[2], fs)
    THEN IF Exists(p[1], fs) THEN <<p[1], p[1], p[3]>>
         ELSE <<p[3], p[3], p[3]>>
    ELSE p

\* variant: the end check is left out
CheckEnd_KeepEnd(p, fs) == p

\* lines 548-554
CheckEnd(p, fs) ==
    IF ~Exists(p[3], fs)
    THEN IF Exists(p[2], fs) THEN <<p[1], p[2], p[2]>>
         ELSE <<p[1], p[1], p[1]>>
    ELSE p

\* variant: only the start check is made
SubstitutionPolicy_StartCheckOnly(p, fs) == CheckStart(p, fs)

\* variant: each check looks at the paths as allocated, not at what the
\* previous check left
SubstitutionPolicy_Parallel(p, fs) ==
    <<CheckStart(p, fs)[1], CheckMid(p, fs)[2], CheckEnd(p, fs)[3]>>

\* lines 533-554: the three checks in source order, each on the paths the
\* previous one left
SubstitutionPolicy(p, fs) == CheckEnd(CheckMid(CheckStart(p, fs), fs), fs)

Substitute ==
    /\ pc = "substitute"
    /\ LET p == SubstitutionPolicy(
                   <<start_thumb_path, mid_thumb_path, end_thumb_path>>, files)
       IN  /\ start_thumb_path' = p[1]
           /\ mid_thumb_path' = p[2]
           /\ end_thumb_path' = p[3]
    /\ pc' = "composite"
    /\ UNCHANGED <<error, tmp_names, allocated, thumbnail_path>>
    /\ UNCHANGED probeVars
    /\ UNCHANGED fsVars
    /\ UNCHANGED planVars
    /\ UNCHANGED callVars
    /\ UNCHANGED convVars
    /\ UNCHANGED outerVars

\* lines 556-570: the merge call; the transcoder can write the thumbnail
\* only when its three inputs exist, and may fail even then
Composite ==
    /\ pc = "composite"
    /\ ffmpeg_calls' = ffmpeg_calls + 1
    /\ \E produced \in BOOLEAN :
          /\ produced =>
                {start_thumb_path, mid_thumb_path, end_thumb_path} \subseteq files
          /\ files' = IF produced THEN files \cup {thumbnail_path} ELSE files
    /\ pc' = "cleanup"
    /\ UNCHANGED <<error, extracted, swallowed, result>>
    /\ UNCHANGED probeVars
    /\ UNCHANGED pathVars
    /\ UNCHANGED planVars
    /\ UNCHANGED callVars
    /\ UNCHANGED convVars
    /\ UNCHANGED outerVars

\* variant: the end frame is not removed
RemoveIntermediate_SkipEnd(s, m, e, fs) ==
    LET r1 == Remove(s, fs)
        r2 == Remove(m, r1.files)
        caught(r) == IF r.oserror THEN 1 ELSE 0
    IN  [files |-> r2.files, caught |-> caught(r1) + caught(r2)]

\* lines 572-586: three os.remove, each in its own try/except OSError
RemoveIntermediate(s, m, e, fs) ==
    LET r1 == Remove(s, fs)
        r2 == Remove(m, r1.files)
        r3 == Remove(e, r2.files)
        caught(r) == IF r.oserror THEN 1 ELSE 0
    IN  [files |-> r3.files, caught |-> caught(r1) + caught(r2) + caught(r3)]

\* lines 572-588
CleanupAndReturn ==
    /\ pc = "cleanup"
    /\ LET r == RemoveIntermediate(start_thumb_path, mid_thumb_path,
                                   end_thumb_path, files)
       IN  /\ files' = r.files
           /\ swallowed' = r.caught
    /\ result' = thumbnail_path
    /\ pc' = "returned"
    /\ UNCHANGED <<error, extracted, ffmpeg_calls>>
    /\ UNCHANGED probeVars
    /\ UNCHANGED pathVars
    /\ UNCHANGED planVars
    /\ UNCHANGED callVars
    /\ UNCHANGED convVars
    /\ UNCHANGED outerVars

\* ------------------------------------------------------ ffmpeg and ffprobe
\* most options of one call in the argument-vector specification
MaxOptions == 2
\* most lines a child process writes
MaxChildLines == 2

AttributeErrorNoneSplit ==
    "AttributeError: 'NoneType' object has no attribute 'split'"

PyList(l) == [t |-> "list", l |-> l]
PyInt(v) == [t |-> "int", v |-> v]

\* the keyword arguments of a call are a dict in iteration order: a
\* sequence of [k, v] with distinct keys, v a PyStr or a PyList of strs
\* (str(value) of line 749 has been applied)
Option(k, v) == [k |-> k, v |-> v]

Keys(d) == {d[i].k : i \in 1..Len(d)}

\* d.get(k)
ODictGet(d, k) ==
    IF k \in Keys(d)
    THEN d[CHOOSE i \in 1..Len(d) : d[i].k = k].v
    ELSE None

\* d.pop(k), KeyError swallowed (lines 736-739)
RECURSIVE ODictPop(_, _)
ODictPop(d, k) ==
    IF d = <<>> THEN <<>>
    ELSE IF Head(d).k = k THEN ODictPop(Tail(d), k)
    ELSE <<Head(d)>> \o ODictPop(Tail(d), k)

\* d[k] = v: an existing key keeps its place
ODictSet(d, k, v) ==
    IF k \in Keys(d)
    THEN [i \in 1..Len(d) |-> IF d[i].k = k THEN Option(k, v) ELSE d[i]]
    ELSE Append(d, Option(k, v))

\* d.update(u)
RECURSIVE ODictUpdate(_, _)
ODictUpdate(d, u) ==
    IF u = <<>> THEN d
    ELSE ODictUpdate(ODictSet(d, Head(u).k, Head(u).v), Tail(u))

\* lines 751-755: the flag before every element of a list value
RECURSIVE MultiFlag(_, _)
MultiFlag(flag, values) ==
    IF values = <<>> THEN <<>>
    ELSE <<flag, Head(values)>> \o MultiFlag(flag, Tail(values))

\* lines 743-755 and 803-816: the loop over the keyword arguments
RECURSIVE FlagArgs(_)
FlagArgs(d) ==
    IF d = <<>> THEN <<>>
    ELSE LET flag == <<"-">> \o Head(d).k
             value == Head(d).v
         IN  (IF value.t # "list"
              THEN <<flag, value.s>>
              ELSE MultiFlag(flag, value.l)) \o FlagArgs(Tail(d))

ffmpeg_command_path == <<"ffmpeg">>
ffprobe_command_path == <<"ffprobe">>

\* '%s' % multiprocessing.cpu_count()
num_of_threads == <<"8">>

StillFormats == {<<"jpg">>, <<"jpeg">>, <<"png">>, <<"tga">>}

\* lines 735-773 of ffmpeg(): [err, args]
FfmpegArgs(kw) ==
    LET output == ODictGet(kw, <<"o">>)
        rest == ODictPop(kw, <<"o">>)
        flags == <<ffmpeg_command_path>> \o FlagArgs(rest)
    IN  IF output.t # "str"
        THEN \* output.split on None, line 761
             [err |-> AttributeErrorNoneSplit, args |-> flags]
        ELSE LET pieces == Split(output.s, ".")
                 threads ==
                     IF pieces[Len(pieces)] \notin StillFormats
                     THEN <<<<"-", "threads">>, num_of_threads>>
                     ELSE <<>>
                 last == IF output.s # <<>> THEN <<output.s>> ELSE <<>>
             IN  [err |-> NoError,
                  args |-> flags \o threads \o <<<<"-", "y">>>> \o last]

\* lines 802-816 of ffprobe(): [err, args]
FfprobeArgs(kw) ==
    [err |-> NoError, args |-> <<ffprobe_command_path>> \o FlagArgs(kw)]

\* subprocess.Popen: a running child with an open, empty pipe
Popen ==
    [t |-> "Popen", exited |-> FALSE, returncode |-> 0, pipe_open |-> TRUE,
     pipe |-> <<>>, written |-> <<>>]

\* the wrapper builds the vector and spawns the child
Call(name, r, kw) ==
    /\ call_pc = "idle"
    /\ tool' = name
    /\ kwargs' = kw
    /\ args' = r.args
    /\ IF r.err # NoError
       THEN /\ call_pc' = "raised"
            /\ call_error' = r.err
            /\ UNCHANGED <<spawned, process>>
       ELSE /\ call_pc' = "reading"
            /\ call_error' = call_error
            /\ spawned' = spawned + 1
            /\ process' = Popen
    /\ UNCHANGED <<stderr_buffer, call_result>>

\* lines 728-779
FfmpegCall(kw) ==
    Call("ffmpeg", FfmpegArgs(kw), kw) /\ UNCHANGED <<thumbVars, convVars, outerVars>>

\* lines 798-822
FfprobeCall(kw) ==
    Call("ffprobe", FfprobeArgs(kw), kw) /\ UNCHANGED <<thumbVars, convVars, outerVars>>

\* lines the child can write
ChildLines == {<<"a", "\n">>, <<"b", "\n">>}
ExitStatuses == {0, 1}

Running == process.t = "Popen" /\ ~process.exited

\* the child writes a line to the piped stream
ChildWrite ==
    /\ Running
    /\ process.pipe_open
    /\ Len(process.written) < MaxChildLines
    /\ \E l \in ChildLines :
          process' = [process EXCEPT !.pipe = Append(@, l),
                                     !.written = Append(@, l)]
    /\ UNCHANGED <<call_pc, call_error, tool, kwargs, args, spawned,
                   stderr_buffer, call_result>>
    /\ UNCHANGED <<thumbVars, convVars, outerVars>>

\* the child closes the piped stream and keeps running
ChildClose ==
    /\ Running
    /\ process.pipe_open
    /\ process' = [process EXCEPT !.pipe_open = FALSE]
    /\ UNCHANGED <<call_pc, call_error, tool, kwargs, args, spawned,
                   stderr_buffer, call_result>>
    /\ UNCHANGED <<thumbVars, convVars, outerVars>>

\* the child exits, with any status; its end of the pipe is closed
ChildExit ==
    /\ Running
    /\ \E status \in ExitStatuses :
          process' = [process EXCEPT !.exited = TRUE, !.returncode = status,
                                     !.pipe_open = FALSE]
    /\ UNCHANGED <<call_pc, call_error, tool, kwargs, args, spawned,
                   stderr_buffer, call_result>>
    /\ UNCHANGED <<thumbVars, convVars, outerVars>>

\* process.poll(): None while the child runs
Poll(p) == IF p.exited THEN PyInt(p.returncode) ELSE None

\* variant: the loop ends as soon as the child has exited
LoopStep_PollOnly(stderr, poll) ==
    IF poll.t # "None" THEN "break"
    ELSE IF stderr # <<>> THEN "append"
    ELSE "again"

\* lines 784-788 (826-830): what one turn of the loop does with the line
\* read and the poll result
LoopStep(stderr, poll) ==
    IF stderr = <<>> /\ poll.t # "None" THEN "break"
    ELSE IF stderr # <<>> THEN "append"
    ELSE "again"

\* lines 781-796 (823-839): one turn of the loop.  readline() blocks until
\* a line is in the pipe or every writer has closed it, and returns '' only
\* then; after the break the buffer is returned.
Readline ==
    /\ call_pc = "reading"
    /\ process.pipe # <<>> \/ ~process.pipe_open
    /\ LET stderr == IF process.pipe # <<>> THEN Head(process.pipe) ELSE <<>>
           step == LoopStep(stderr, Poll(process))
       IN  /\ process' = [process EXCEPT !.pipe =
                             IF @ # <<>> THEN Tail(@) ELSE @]
           /\ stderr_buffer' = IF step = "append"
                               THEN Append(stderr_buffer, stderr)
                               ELSE stderr_buffer
           /\ call_pc' = IF step = "break" THEN "returned" ELSE call_pc
           /\ call_result' = IF step = "break" THEN PyList(stderr_buffer)
                             ELSE call_result
    /\ UNCHANGED <<call_error, tool, kwargs, args, spawned>>
    /\ UNCHANGED <<thumbVars, convVars, outerVars>>

\* -------------------------------------------------------------- converters
TypeErrorUnboundMethod ==
    "TypeError: unbound method ffmpeg() must be called with MediaManager instance as first argument"

\* index of the last token tok of s, 0 when there is none (str.rfind)
RFind(s, tok) ==
    IF \E i \in 1..Len(s) : s[i] = tok
    THEN CHOOSE i \in 1..Len(s) :
            s[i] = tok /\ \A j \in (i + 1)..Len(s) : s[j] # tok
    ELSE 0

\* os.path.splitext: <<root, ext>>.  The extension starts at the last dot
\* of the last path segment, unless only dots come before it in the segment
SplitExt(p) ==
    LET sepIndex == RFind(p, "/")
        dotIndex == RFind(p, ".")
    IN  IF /\ dotIndex > sepIndex
           /\ \E i \in (sepIndex + 1)..(dotIndex - 1) : p[i] # "."
        THEN <<SubSeq(p, 1, dotIndex - 1), SubSeq(p, dotIndex, Len(p))>>
        ELSE <<p, <<>>>>

\* bound as classmethods, and calling cls.ffmpeg (lines 841, 964)
ClassMethods == {"convert_to_h264", "convert_to_animated_gif"}

Converters ==
    {"convert_to_h264", "convert_to_webm", "convert_to_prores",
     "convert_to_mjpeg", "convert_to_animated_gif"}

\* the extension each converter puts on the output path
TargetExtension(name) ==
    CASE name = "convert_to_h264" -> <<".", "mp4">>
      [] name = "convert_to_webm" -> <<".", "webm">>
      [] name = "convert_to_prores" -> <<".", "mov">>
      [] name = "convert_to_mjpeg" -> <<".", "mov">>
      [] name = "convert_to_animated_gif" -> <<".", "gif">>

\* '%sk' % self.web_video_bitrate (lines 338, 881)
web_video_bitrate == <<"4096">>

Preset(k, v) == Option(<<k>>, PyStr(<<v>>))

\* the dict literal of each converter, between 'i' and 'o'
Presets(name) ==
    CASE name = "convert_to_h264" ->
            <<Preset("vcodec", "libx264"), Preset("profile:v", "main"),
              Preset("g", "1"), Preset("b:v", "4096k")>>
      [] name = "convert_to_webm" ->
            <<Preset("vcodec", "libvpx"),
              Option(<<"b:v">>, PyStr(web_video_bitrate \o <<"k">>))>>
      [] name = "convert_to_prores" ->
            <<Preset("probesize", "5000000"), Preset("f", "image2"),
              Preset("profile:v", "3"), Preset("qscale:v", "13"),
              Preset("vcodec", "prores_ks"), Preset("vendor", "ap10"),
              Preset("pix_fmt", "yuv422p10le")>>
      [] name = "convert_to_mjpeg" ->
            <<Preset("probesize", "5000000"), Preset("f", "image2"),
              Preset("qscale:v", "1"), Preset("vcodec", "mjpeg"),
              Preset("vendor", "ap10"), Preset("pix_fmt", "yuv422p")>>
      [] name = "convert_to_animated_gif" -> <<>>

\* the dict handed to ffmpeg(): the literal, then options over it
ConversionOptions(name, input, output, options) ==
    ODictUpdate(<<Option(<<"i">>, PyStr(input))>> \o Presets(name)
                    \o <<Option(<<"o">>, PyStr(output))>>,
                IF options.t = "None" THEN <<>> ELSE options.d)

\* a convert_to_* method up to its call of ffmpeg(), and that call up to
\* the spawn of the child.  cls.ffmpeg is the plain function, called here
\* without an instance: TypeError before ffmpeg() is entered.
ConvertCall(name, input, output, options) ==
    /\ conv_pc = "idle"
    /\ call_pc = "idle"
    /\ converter' = [name |-> name, input_path |-> input,
                     output_path |-> output, options |-> options]
    /\ output_path' = PyStr(SplitExt(output)[1] \o TargetExtension(name))
    /\ IF name \in ClassMethods
       THEN /\ conv_pc' = "raised"
            /\ conv_error' = TypeErrorUnboundMethod
            /\ UNCHANGED callVars
       ELSE LET kw == ConversionOptions(name, input, output_path'.s, options)
            IN  /\ Call("ffmpeg", FfmpegArgs(kw), kw)
                /\ conv_pc' = IF call_pc' = "raised" THEN "raised" ELSE "calling"
                /\ conv_error' = call_error'
    /\ conv_result' = conv_result

\* a converter called on its own
Convert(name, input, output, options) ==
    ConvertCall(name, input, output, options) /\ UNCHANGED <<thumbVars, outerVars>>

\* ffmpeg() has returned: return output_path
ConvertReturn ==
    /\ conv_pc = "calling"
    /\ call_pc = "returned"
    /\ conv_pc' = "returned"
    /\ conv_result' = output_path
    /\ UNCHANGED <<conv_error, converter, output_path>>
    /\ UNCHANGED callVars
    /\ UNCHANGED <<thumbVars, outerVars>>

InputPaths == {<<"in", ".", "mov">>}

OutputPaths ==
    {<<"out", ".", "avi">>, <<"out">>, <<"a", ".", "b", "/", "out">>,
     <<".", "hidden">>, <<"out", ".", "tar", ".", "gz">>,
     <<"dir", "/", "out", ".", "MP4">>}

\* the options argument: left out, empty, a new key, a preset key, 'o'
OptionOverrides ==
    {None, PyDict(<<>>),
     PyDict(<<Option(<<"r">>, PyStr(<<"24">>))>>),
     PyDict(<<Option(<<"vcodec">>, PyStr(<<"copy">>))>>),
     PyDict(<<Option(<<"o">>, PyStr(<<"other", ".", "avi">>))>>)}

\* ---------------------------------------------------------------- dispatch
RuntimeErrorNotMedia == "RuntimeError: not an image nor a video file"
IOErrorImage == "IOError: cannot identify image file"

ImageNames ==
    {"gif", "ico", "iff", "jpg", "jpeg", "png", "tga", "tif", "tiff",
     "bmp", "exr"}

VideoNames ==
    {"3gp", "a64", "asf", "avi", "dnxhd", "f4v", "filmstrip", "flv",
     "h261", "h263", "h264", "ipod", "m4v", "matroska", "mjpeg",
     "mkv", "mov", "mp4", "mpeg", "mpg", "mpeg1video", "mpeg2video",
     "mv", "mxf", "ogg", "rm", "swf", "vc1", "vcd", "vob", "webm"}

LowerToken(t) ==
    CASE t = "3GP" -> "3gp"
      [] t = "A64" -> "a64"
      [] t = "ASF" -> "asf"
      [] t = "AVI" -> "avi"
      [] t = "BMP" -> "bmp"
      [] t = "DNXHD" -> "dnxhd"
      [] t = "EXR" -> "exr"
      [] t = "F4V" -> "f4v"
      [] t = "FILMSTRIP" -> "filmstrip"
      [] t = "FLV" -> "flv"
      [] t = "GIF" -> "gif"
      [] t = "H261" -> "h261"
      [] t = "H263" -> "h263"
      [] t = "H264" -> "h264"
      [] t = "ICO" -> "ico"
      [] t = "IFF" -> "iff"
      [] t = "IPOD" -> "ipod"
      [] t = "JPEG" -> "jpeg"
      [] t = "JPG" -> "jpg"
      [] t = "M4V" -> "m4v"
      [] t = "MATROSKA" -> "matroska"
      [] t = "MJPEG" -> "mjpeg"
      [] t = "MKV" -> "mkv"
      [] t = "MOV" -> "mov"
      [] t = "MP4" -> "mp4"
      [] t = "MPEG" -> "mpeg"
      [] t = "MPEG1VIDEO" -> "mpeg1video"
      [] t = "MPEG2VIDEO" -> "mpeg2video"
      [] t = "MPG" -> "mpg"
      [] t = "MV" -> "mv"
      [] t = "MXF" -> "mxf"
      [] t = "OGG" -> "ogg"
      [] t = "PNG" -> "png"
      [] t = "RM" -> "rm"
      [] t = "SWF" -> "swf"
      [] t = "TGA" -> "tga"
      [] t = "TIF" -> "tif"
      [] t = "TIFF" -> "tiff"
      [] t = "TXT" -> "txt"
      [] t = "VC1" -> "vc1"
      [] t = "VCD" -> "vcd"
      [] t = "VOB" -> "vob"
      [] t = "WEBM" -> "webm"
      [] t = "Jpg" -> "jpg"
      [] t = "Mov" -> "mov"
      [] t = "WebM" -> "webm"
      [] OTHER -> t


\* lines 306-320
image_formats == {<<".", n>> : n \in ImageNames}
video_formats == {<<".", n>> : n \in VideoNames}

\* lines 323, 335
thumbnail_format == <<".", "jpg">>
web_video_format == <<".", "webm">>

\* str.lower()
Lower(s) == [i \in 1..Len(s) |-> LowerToken(s[i])]

\* variant: the extension is compared as written
Extension_AsWritten(path) == SplitExt(path)[2]

\* lines 607, 629: os.path.splitext(file_full_path)[-1].lower()
Extension(path) == Lower(SplitExt(path)[2])

\* lines 607-618 and 629-639: the method the call goes on to
RouteOf(name, path) ==
    IF Extension(path) \in image_formats
    THEN IF name = "generate_thumbnail" THEN "generate_image_thumbnail"
         ELSE "generate_image_for_web"
    ELSE IF Extension(path) \in video_formats
    THEN IF name = "generate_thumbnail" THEN "generate_video_thumbnail"
         ELSE "generate_video_for_web"
    ELSE "unsupported"

\* generate_thumbnail / generate_media_for_web up to the dispatch
Dispatch(name, path) ==
    /\ gen_pc = "idle"
    /\ entry' = name
    /\ file_full_path' = path
    /\ route' = RouteOf(name, path)
    /\ IF route' = "unsupported"
       THEN gen_pc' = "raised" /\ gen_error' = RuntimeErrorNotMedia
       ELSE gen_pc' = "dispatched" /\ gen_error' = gen_error
    /\ gen_result' = gen_result
    /\ UNCHANGED <<thumbVars, callVars, convVars, uploadVars, invocations>>

\* what generate_video_thumbnail keeps besides tmp_names and files
thumbRest == <<pc, error, probeVars, allocated, start_thumb_path,
               mid_thumb_path, end_thumb_path, thumbnail_path, extracted,
               ffmpeg_calls, swallowed, result, planVars>>

\* lines 383-412 and 414-449: Image.open fails, or the image is saved
\* under a fresh temporary name
ImageMethod ==
    /\ gen_pc = "dispatched"
    /\ route \in {"generate_image_thumbnail", "generate_image_for_web"}
    /\ \/ LET name == Mktemp(tmp_names)
          IN  /\ tmp_names' = tmp_names + 1
              /\ files' = files \cup {name}
              /\ gen_result' = name
              /\ gen_pc' = "returned"
              /\ gen_error' = gen_error
       \/ /\ gen_pc' = "raised"
          /\ gen_error' = IOErrorImage
          /\ UNCHANGED <<tmp_names, files, gen_result>>
    /\ UNCHANGED <<entry, file_full_path, route>>
    /\ UNCHANGED <<thumbRest, callVars, convVars, uploadVars, invocations>>

\* the name tempfile.mktemp(suffix) gives for the id-th temporary file
TmpPath(id, suffix) == <<"tmp", ToString(id)>> \o suffix

\* lines 596-597: the temporary name, kept in gen_result from here on,
\* and the call of convert_to_webm
VideoForWeb ==
    /\ gen_pc = "dispatched"
    /\ route = "generate_video_for_web"
    /\ LET name == Mktemp(tmp_names)
       IN  /\ tmp_names' = tmp_names + 1
           /\ gen_result' = name
           /\ ConvertCall("convert_to_webm", file_full_path,
                          TmpPath(name, web_video_format), None)
    /\ gen_pc' = IF conv_pc' = "raised" THEN "raised" ELSE "converting"
    /\ gen_error' = conv_error'
    /\ UNCHANGED <<entry, file_full_path, route>>
    /\ UNCHANGED <<thumbRest, files, uploadVars, invocations>>

\* line 598
VideoForWebReturn ==
    /\ gen_pc = "converting"
    /\ conv_pc = "returned"
    /\ gen_pc' = "returned"
    /\ UNCHANGED <<gen_error, entry, file_full_path, route, gen_result>>
    /\ UNCHANGED <<thumbVars, callVars, convVars, uploadVars, invocations>>

\* what the prober prints for the dispatched file: one video stream, or
\* nothing but a blank line
DispatchedStreamOutputs ==
    {<<Line(STREAM_OPEN), Line(KV("codec_type", <<"video">>)),
       Line(KV("nb_frames", <<"1", "2", "0">>)), Line(STREAM_CLOSE)>>,
     <<BlankLine>>}

\* line 613: generate_video_thumbnail starts with its probe
VideoThumbnail ==
    /\ gen_pc = "dispatched"
    /\ route = "generate_video_thumbnail"
    /\ GetVideoInfoFrom(DispatchedStreamOutputs, {<<BlankLine>>, <<>>})

\* names written in upper case
UpperNames ==
    {"3GP", "A64", "ASF", "AVI", "BMP", "DNXHD", "EXR", "F4V",
     "FILMSTRIP", "FLV", "GIF", "H261", "H263", "H264", "ICO", "IFF",
     "IPOD", "JPEG", "JPG", "M4V", "MATROSKA", "MJPEG", "MKV", "MOV",
     "MP4", "MPEG", "MPEG1VIDEO", "MPEG2VIDEO", "MPG", "MV", "MXF",
     "OGG", "PNG", "RM", "SWF", "TGA", "TIF", "TIFF", "VC1", "VCD",
     "VOB", "WEBM"}

\* the paths the two methods are called on
DispatchPaths ==
    {<<"shot", ".", n>> :
        n \in ImageNames \cup VideoNames \cup UpperNames
              \cup {"Jpg", "Mov", "WebM", "txt", "TXT", "psd", "jpgx"}}
    \cup {<<"shot">>,
          <<"dir", ".", "mov", "/", "shot">>,
          <<"dir", ".", "mov", "/", "shot", ".", "txt">>,
          <<"dir", ".", "txt", "/", "shot", ".", "MOV">>,
          <<"shot", ".", "mov", ".", "txt">>,
          <<"shot", ".", "txt", ".", "png">>}

\* ----------------------------------------------------------------- uploads
IOErrorNoFile == "IOError: [Errno 2] No such file or directory"

Uploads == {"upload_reference", "upload_version_output"}

\* how a call of generate_media_for_web or generate_thumbnail can end, by
\* the method it dispatches to: "RuntimeError" is the raise of lines 616 and
\* 638, "file" a returned path with its file, "nofile" a returned path the
\* transcoder left no file at, "IOError" the failure of Image.open and
\* "error" an exception of the frame-count estimation
GenOutcomes(r) ==
    CASE r = "unsupported" -> {"RuntimeError"}
      [] r \in {"generate_image_thumbnail", "generate_image_for_web"} ->
            {"file", "IOError"}
      [] r = "generate_video_for_web" -> {"file", "nofile"}
      [] r = "generate_video_thumbnail" -> {"file", "nofile", "error"}

\* one stage (lines 1198-1227, 1229-1253 and 1351-1378, 1382-1409) on the
\* outcome of its generate call: [err, linked].  The Link is made before
\* shutil.move, which raises IOError for a missing source; only
\* upload_version_output has an except clause, and it names RuntimeError.
Stage(method, outcome) ==
    CASE outcome = "file" -> [err |-> NoError, linked |-> TRUE]
      [] outcome = "nofile" -> [err |-> IOErrorNoFile, linked |-> TRUE]
      [] outcome = "RuntimeError" ->
            IF method = "upload_version_output"
            THEN [err |-> NoError, linked |-> FALSE]
            ELSE [err |-> RuntimeErrorNotMedia, linked |-> FALSE]
      [] outcome = "IOError" -> [err |-> IOErrorImage, linked |-> FALSE]
      [] outcome = "error" -> [err |-> AttributeErrorNoneGet, linked |-> FALSE]

\* variant: the root Link is handed to the parent as soon as it is made
UploadCall_AppendsFirst(method, filename) ==
    /\ up_pc = "idle"
    /\ upload' = [method |-> method, filename |-> filename]
    /\ link' = "link"
    /\ parent' = Append(parent, "link")
    /\ up_pc' = "web_version"
    /\ UNCHANGED <<up_error, web_outcome, thumb_outcome, web_version_link,
                   thumbnail_link, thumbnail, up_result>>
    /\ UNCHANGED <<thumbVars, callVars, convVars, dispatchVars, invocations>>

\* lines 1146-1196 and 1297-1346: the file is stored and the root Link made
UploadCall(method, filename) ==
    /\ up_pc = "idle"
    /\ upload' = [method |-> method, filename |-> filename]
    /\ link' = "link"
    /\ up_pc' = "web_version"
    /\ UNCHANGED <<up_error, web_outcome, thumb_outcome, web_version_link,
                   thumbnail_link, thumbnail, parent, up_result>>
    /\ UNCHANGED <<thumbVars, callVars, convVars, dispatchVars, invocations>>

\* lines 1198-1227 and 1349-1378
WebVersionStage ==
    /\ up_pc = "web_version"
    /\ \E o \in GenOutcomes(RouteOf("generate_media_for_web", upload.filename)) :
          LET r == Stage(upload.method, o)
          IN  /\ web_outcome' = o
              /\ web_version_link' =
                    IF r.linked THEN "web_version_link" ELSE NoLink
              /\ up_error' = r.err
              /\ up_pc' = IF r.err # NoError THEN "raised" ELSE "thumbnail"
    /\ UNCHANGED <<upload, thumb_outcome, link, thumbnail_link, thumbnail,
                   parent, up_result>>
    /\ UNCHANGED <<thumbVars, callVars, convVars, dispatchVars, invocations>>

\* lines 1229-1253 and 1380-1409
ThumbnailStage ==
    /\ up_pc = "thumbnail"
    /\ \E o \in GenOutcomes(RouteOf("generate_thumbnail", upload.filename)) :
          LET r == Stage(upload.method, o)
          IN  /\ thumb_outcome' = o
              /\ thumbnail_link' =
                    IF r.linked THEN "thumbnail_link" ELSE NoLink
              /\ up_error' = r.err
              /\ up_pc' = IF r.err # NoError THEN "raised" ELSE "link_objects"
    /\ UNCHANGED <<upload, web_outcome, link, web_version_link, thumbnail,
                   parent, up_result>>
    /\ UNCHANGED <<thumbVars, callVars, convVars, dispatchVars, invocations>>

\* lines 1261-1262
LinkReference(th, web, thumb) ==
    [th EXCEPT !["link"] = web, ![web] = thumb]

\* variant: the thumbnail is attached to the root and the web version to it
LinkOutput_ThumbnailFirst(th, web, thumb) ==
    IF web # NoLink
    THEN IF thumb # NoLink
         THEN [th EXCEPT !["link"] = thumb, ![thumb] = web]
         ELSE [th EXCEPT !["link"] = web]
    ELSE th

\* lines 1417-1420
LinkOutput(th, web, thumb) ==
    IF web # NoLink
    THEN IF thumb # NoLink
         THEN [th EXCEPT !["link"] = web, ![web] = thumb]
         ELSE [th EXCEPT !["link"] = web]
    ELSE th

\* lines 1255-1264 and 1411-1422
LinkObjects ==
    /\ up_pc = "link_objects"
    /\ parent' = Append(parent, link)
    /\ thumbnail' =
          IF upload.method = "upload_reference"
          THEN LinkReference(thumbnail, web_version_link, thumbnail_link)
          ELSE LinkOutput(thumbnail, web_version_link, thumbnail_link)
    /\ up_result' = link
    /\ up_pc' = "returned"
    /\ UNCHANGED <<up_error, upload, web_outcome, thumb_outcome, link,
                   web_version_link, thumbnail_link>>
    /\ UNCHANGED <<thumbVars, callVars, convVars, dispatchVars, invocations>>

\* the uploaded file's names
UploadNames ==
    {<<"shot", ".", n>> : n \in {"png", "JPG", "gif", "tga", "exr", "mov",
                                 "MP4", "webm", "avi", "mkv", "txt", "pdf",
                                 "zip", "ma", "psd", "mp3"}}
    \cup {<<"shot">>}

\* option values of the argument-vector specification
ArgOptions ==
    {Option(<<"i">>, PyStr(<<"in", ".", "mov">>)),
     Option(<<"vframes">>, PyStr(<<"1">>)),
     Option(<<"vf">>, PyList(<<<<"scale=512:-1">>, <<"fps=1">>>>))}

\* output paths: none, the empty str, still images, others
ArgOutputs ==
    {<<>>,
     <<"out", ".", "jpg">>, <<"out", ".", "jpeg">>, <<"out", ".", "png">>,
     <<"out", ".", "tga">>, <<"out", ".", "webm">>, <<"out">>,
     <<"dir", ".", "png", "/", "out">>}

\* dicts of n of the options, in every order
RECURSIVE OptionDicts(_)
OptionDicts(n) ==
    IF n = 0 THEN {<<>>}
    ELSE {Append(d, o) : d \in OptionDicts(n - 1), o \in ArgOptions}

DistinctKeys(d) == Cardinality(Keys(d)) = Len(d)

\* keyword arguments with at most MaxOptions options and with or without
\* an 'o', passed first or last
ArgKwargs ==
    LET opts == {d \in UNION {OptionDicts(n) : n \in 0..MaxOptions} :
                    DistinctKeys(d)}
    IN  opts
        \cup {Append(d, Option(<<"o">>, PyStr(o))) : d \in opts, o \in ArgOutputs}
        \cup {<<Option(<<"o">>, PyStr(o))>> \o d : d \in opts, o \in ArgOutputs}

\* keyword arguments of the calls whose child is followed to its exit
RunKwargs ==
    {<<Option(<<"i">>, PyStr(<<"in", ".", "mov">>)),
       Option(<<"o">>, PyStr(<<"out", ".", "webm">>))>>,
     <<Option(<<"i">>, PyStr(<<"in", ".", "mov">>)),
       Option(<<"o">>, PyStr(<<"out", ".", "jpg">>))>>,
     <<Option(<<"i">>, PyStr(<<"in", ".", "mov">>))>>}

ProbeKwargs ==
    {<<Option(<<"show_streams">>, PyStr(<<"in", ".", "mov">>))>>,
     <<Option(<<"show_format">>, PyStr(<<"in", ".", "mov">>))>>}

\* --------------------------------------- concurrent generate_video_thumbnail
\* Two calls of generate_video_thumbnail interleave.  The paths are locals
\* of each call; tempfile's name sequence and the file system are shared.
\* One step is one call of tempfile.mktemp, one call of ffmpeg, or the three
\* os.remove calls.
InvocationFrame ==
    UNCHANGED <<thumbRest, callVars, convVars, dispatchVars, uploadVars>>

Goto(i, label) == [invocations EXCEPT ![i].pc = label]

\* lines 460-498: the frame count is found; no path is made and no file is
\* written
InvocationBegin(i) ==
    /\ invocations[i].pc = "idle"
    /\ invocations' = Goto(i, "mktemp")
    /\ UNCHANGED <<tmp_names, files>>
    /\ InvocationFrame

\* lines 500-504: the next of the four tempfile.mktemp calls; its value is
\* bound to the next of the locals start_thumb_path, mid_thumb_path,
\* end_thumb_path, thumbnail_path
InvocationMktemp(i) ==
    /\ invocations[i].pc = "mktemp"
    /\ LET name == Mktemp(tmp_names)
           held == Append(invocations[i].paths, name)
       IN  /\ tmp_names' = tmp_names + 1
           /\ invocations' =
                [invocations EXCEPT
                    ![i].paths = held,
                    ![i].pc = IF Len(held) = 4 THEN "extract" ELSE "mktemp"]
    /\ UNCHANGED files
    /\ InvocationFrame

\* lines 512-531: the next of the three extractions; ffmpeg writes the frame
\* at the call's own path, or writes nothing
InvocationExtract(i) ==
    /\ invocations[i].pc = "extract"
    /\ LET n == invocations[i].calls + 1
       IN  /\ \E produced \in BOOLEAN :
                 files' = IF produced
                          THEN files \cup {invocations[i].paths[n]}
                          ELSE files
           /\ invocations' =
                [invocations EXCEPT
                    ![i].calls = n,
                    ![i].pc = IF n = 3 THEN "composite" ELSE "extract"]
    /\ UNCHANGED tmp_names
    /\ InvocationFrame

\* lines 557-570: the composite is written at the call's thumbnail_path, or
\* ffmpeg writes nothing
InvocationComposite(i) ==
    /\ invocations[i].pc = "composite"
    /\ \E produced \in BOOLEAN :
          files' = IF produced THEN files \cup {invocations[i].paths[4]}
                   ELSE files
    /\ invocations' = Goto(i, "remove")
    /\ UNCHANGED tmp_names
    /\ InvocationFrame

\* lines 573-588: the frames of the call are removed and thumbnail_path is
\* returned
InvocationReturn(i) ==
    /\ invocations[i].pc = "remove"
    /\ files' = files \ {invocations[i].paths[k] : k \in 1..3}
    /\ invocations' = Goto(i, "returned")
    /\ UNCHANGED tmp_names
    /\ InvocationFrame

\* ---------------------------------------------------------- specifications
Next ==
    \/ GetVideoInfo
    \/ SelectStream
    \/ EstimateFrames
    \/ Allocate
    \/ ExtractStart
    \/ ExtractMid
    \/ ExtractEnd
    \/ Substitute
    \/ Composite
    \/ CleanupAndReturn

Spec == Init /\ [][Next]_vars

\* get_video_info alone, on every line sequence of at most MaxLines lines
NextParse == GetVideoInfoRaw

SpecParse == Init /\ [][NextParse]_vars

\* lines 460-498 alone, on one video stream with signed field values
NextEstimate ==
    \/ GetVideoInfoSingle
    \/ SelectStream
    \/ EstimateFrames

SpecEstimate == Init /\ [][NextEstimate]_vars

\* get_video_info on format outputs of several blocks
NextFormat == GetVideoInfoMultiFormat

SpecFormat == Init /\ [][NextFormat]_vars

\* lines 460-509: the estimation followed by the frame plan
NextPlan ==
    \/ GetVideoInfoSingle
    \/ SelectStream
    \/ EstimateFrames
    \/ Allocate

SpecPlan == Init /\ [][NextPlan]_vars

\* the frame plan for every stated frame count up to MaxFrameCount
NextIndices ==
    \/ GetVideoInfoCounted
    \/ SelectStream
    \/ EstimateFrames
    \/ Allocate

SpecIndices == Init /\ [][NextIndices]_vars

\* ffmpeg() up to the spawn of the child, on every keyword-argument dict
NextArgs == \E kw \in ArgKwargs : FfmpegCall(kw)

SpecArgs == Init /\ [][NextArgs]_vars

\* one call of ffmpeg() or ffprobe() and its child process
NextRun ==
    \/ \E kw \in RunKwargs : FfmpegCall(kw)
    \/ \E kw \in ProbeKwargs : FfprobeCall(kw)
    \/ ChildWrite
    \/ ChildClose
    \/ ChildExit
    \/ Readline

SpecRun == Init /\ [][NextRun]_vars

\* one call of a converter, the child of its ffmpeg() call included
NextConvert ==
    \/ \E name \in Converters, input \in InputPaths, output \in OutputPaths,
          options \in OptionOverrides : Convert(name, input, output, options)
    \/ ChildWrite
    \/ ChildClose
    \/ ChildExit
    \/ Readline
    \/ ConvertReturn

SpecConvert == Init /\ [][NextConvert]_vars

\* one call of generate_thumbnail or generate_media_for_web
NextDispatch ==
    \/ \E name \in {"generate_thumbnail", "generate_media_for_web"},
          path \in DispatchPaths : Dispatch(name, path)
    \/ ImageMethod
    \/ VideoThumbnail
    \/ VideoForWeb
    \/ ChildWrite
    \/ ChildClose
    \/ ChildExit
    \/ Readline
    \/ ConvertReturn
    \/ VideoForWebReturn

SpecDispatch == Init /\ [][NextDispatch]_vars

\* one call of upload_reference or upload_version_output
NextUpload ==
    \/ \E method \in Uploads, filename \in UploadNames :
          UploadCall(method, filename)
    \/ WebVersionStage
    \/ ThumbnailStage
    \/ LinkObjects

SpecUpload == Init /\ [][NextUpload]_vars

\* two calls of generate_video_thumbnail, interleaved
NextConcurrent ==
    \E i \in Invocations :
        \/ InvocationBegin(i)
        \/ InvocationMktemp(i)
        \/ InvocationExtract(i)
        \/ InvocationComposite(i)
        \/ InvocationReturn(i)

SpecConcurrent == Init /\ [][NextConcurrent]_vars

\* ------------------------------------------------------------- properties
\* the paths as mktemp returned them
AllocStart == allocated[1]
AllocMid == allocated[2]
AllocEnd == allocated[3]

AfterSubstitution == pc \in {"composite", "cleanup", "returned"}

Resolved == <<start_thumb_path, mid_thumb_path, end_thumb_path>>

\* C1: when none of the three extractions produced a file, the three paths
\* the substitution policy leaves are one and the same path, and no file
\* has that path.
C1_AllFailCollapse ==
    (AfterSubstitution /\ extracted = {}) =>
        /\ start_thumb_path = mid_thumb_path
        /\ mid_thumb_path = end_thumb_path
        /\ start_thumb_path \in {AllocStart, AllocMid, AllocEnd}
        /\ ~Exists(start_thumb_path, files)

C1_Witness == pc = "composite" /\ extracted = {} /\ ffmpeg_calls = 3

StartFailedMidSucceeded ==
    /\ AfterSubstitution
    /\ AllocStart \notin extracted
    /\ AllocMid \in extracted

\* C2 as claimed: start failed and mid succeeded, then whatever the end
\* extraction did, start equals mid and end is the end path as allocated.
C2_EndUntouched ==
    StartFailedMidSucceeded =>
        /\ start_thumb_path = mid_thumb_path
        /\ end_thumb_path = AllocEnd

\* C2 amended: start failed and mid succeeded, then start and mid are both
\* the allocated mid path; end is the allocated end path when the end
\* extraction succeeded and the mid path when it failed.
C2_StartReusesMid ==
    StartFailedMidSucceeded =>
        /\ start_thumb_path = AllocMid
        /\ mid_thumb_path = AllocMid
        /\ end_thumb_path =
              IF AllocEnd \in extracted THEN AllocEnd ELSE AllocMid

C2_Witness ==
    /\ pc = "composite"
    /\ extracted = {AllocMid}
    /\ end_thumb_path = AllocMid

\* the policy as the specification words it, on <<start, mid, end>> and the
\* set of existing files
SpecStartRule(p, fs) ==
    IF p[1] \in fs THEN p
    ELSE IF p[2] \in fs THEN <<p[2], p[2], p[3]>>
    ELSE <<p[3], p[3], p[3]>>

SpecMidRule(p, fs) ==
    IF p[2] \in fs THEN p
    ELSE IF p[1] \in fs THEN <<p[1], p[1], p[3]>>
    ELSE <<p[3], p[3], p[3]>>

SpecEndRule(p, fs) ==
    IF p[3] \in fs THEN p
    ELSE IF p[2] \in fs THEN <<p[1], p[2], p[2]>>
    ELSE <<p[1], p[1], p[1]>>

SpecifiedPolicy(p, fs) == SpecEndRule(SpecMidRule(SpecStartRule(p, fs), fs), fs)

\* C3: for every combination of extraction outcomes the paths the code
\* leaves are the paths the specified policy gives, its three rules applied
\* in the order start, mid, end, each on the result of the previous one.
C3_PolicyAsSpecified ==
    AfterSubstitution =>
        Resolved = SpecifiedPolicy(<<AllocStart, AllocMid, AllocEnd>>, extracted)

C3_Witness ==
    /\ pc = "composite"
    /\ extracted = {AllocEnd}
    /\ Resolved = <<AllocEnd, AllocEnd, AllocEnd>>

\* C4: when generate_video_thumbnail returns, none of the three frame files
\* exists, whatever was extracted and whether or not the composite wrote
\* its output; every os.remove of a path that had no file (never extracted,
\* or removed by an earlier os.remove) raised OSError and was swallowed.
C4_FramesRemoved ==
    pc = "returned" =>
        /\ files \cap {AllocStart, AllocMid, AllocEnd} = {}
        /\ error = NoError
        /\ swallowed = 3 - Cardinality(extracted)
        /\ result = allocated[4]

C4_Witness ==
    /\ pc = "returned"
    /\ extracted = {AllocMid, AllocEnd}
    /\ swallowed = 1
    /\ thumbnail_path \in files

\* ---- the parser
\* number of [STREAM] ... [/STREAM] pairs in a line sequence: a block opens
\* at a [STREAM] line outside a block and closes at the next [/STREAM] line
RECURSIVE CountBlocks(_, _, _)
CountBlocks(lines, inside, n) ==
    IF lines = <<>> THEN n
    ELSE LET line == Strip(Head(lines))
         IN  IF ~inside /\ line = STREAM_OPEN
             THEN CountBlocks(Tail(lines), TRUE, n)
             ELSE IF inside /\ line = STREAM_CLOSE
             THEN CountBlocks(Tail(lines), FALSE, n + 1)
             ELSE CountBlocks(Tail(lines), inside, n)

EqualsSigns(line) == Cardinality({i \in 1..Len(line) : line[i] = "="})

\* a well-formed format output with no '=' inside a value
PlainFormat(lines) ==
    /\ Len(lines) >= 2
    /\ Strip(lines[1]) = FORMAT_OPEN
    /\ Strip(lines[Len(lines)]) = FORMAT_CLOSE
    /\ \A i \in 1..Len(lines) : EqualsSigns(lines[i]) <= 1

ParserRan == pc # "get_video_info"

\* C5 as claimed, on the non-empty stream outputs whose lines hold at most
\* one '=' (read next to a plain format output): get_video_info does not
\* fail, also when the output ends inside a block, and it returns as many
\* stream records as the output has [STREAM] ... [/STREAM] pairs.
C5_CountsWellFormedBlocks ==
    (/\ ParserRan
     /\ probe_streams # <<>>
     /\ \A i \in 1..Len(probe_streams) : EqualsSigns(probe_streams[i]) <= 1
     /\ PlainFormat(probe_format)) =>
        /\ error = NoError
        /\ pc = "select_stream"
        /\ Len(media_info.stream_info) = CountBlocks(probe_streams, FALSE, 0)

\* key and value of a key=value line split at its first '='
FirstEquals(line) ==
    CHOOSE i \in 1..Len(line) :
        line[i] = "=" /\ \A j \in 1..(i - 1) : line[j] # "="
KeyOf(line) == SubSeq(line, 1, FirstEquals(line) - 1)
ValueOf(line) == SubSeq(line, FirstEquals(line) + 1, Len(line))

\* the record of a block body: each line with '=' sets key to value, the
\* other lines are ignored
RECURSIVE RecordOf(_, _)
RecordOf(lines, rec) ==
    IF lines = <<>> THEN rec
    ELSE LET line == Strip(Head(lines))
         IN  IF Contains(line, "=")
             THEN RecordOf(Tail(lines), DictSet(rec, KeyOf(line), ValueOf(line)))
             ELSE RecordOf(Tail(lines), rec)

\* an output that is one block: the open tag, lines that are no tag, the
\* close tag
SingleBlock(lines, openTag, closeTag) ==
    /\ Len(lines) >= 2
    /\ Strip(lines[1]) = openTag
    /\ Strip(lines[Len(lines)]) = closeTag
    /\ \A i \in 2..(Len(lines) - 1) : Strip(lines[i]) \notin {openTag, closeTag}

BlockBody(lines) == SubSeq(lines, 2, Len(lines) - 1)

\* C6 as claimed: a probe output that is one [STREAM] block and one [FORMAT]
\* block parses without error, and each record maps the text before the
\* first '=' of a line to everything after it, further '=' included; lines
\* without '=' leave no trace.
C6_SplitsOnFirstEquals ==
    (/\ ParserRan
     /\ SingleBlock(probe_streams, STREAM_OPEN, STREAM_CLOSE)
     /\ SingleBlock(probe_format, FORMAT_OPEN, FORMAT_CLOSE)) =>
        /\ error = NoError
        /\ pc = "select_stream"
        /\ media_info.stream_info = <<RecordOf(BlockBody(probe_streams), EmptyDict)>>
        /\ media_info.video_info = PyDict(RecordOf(BlockBody(probe_format), EmptyDict))

\* ---- stream selection and estimation
\* SelectStream has bound video_stream and the locals are still tracked
StreamSelected == pc \in {"estimate", "allocate", "raised"} /\ video_stream.t # "unbound"
\* EstimateFrames has run on a video stream record
EstimatedFromRecord ==
    pc \in {"allocate", "raised"} /\ video_stream.t = "dict"

IsVideo(rec) == <<"codec_type">> \in DOMAIN rec /\ rec[<<"codec_type">>] = <<"video">>
VideoIndices(streams) == {i \in 1..Len(streams) : IsVideo(streams[i])}
FirstVideo(streams) ==
    streams[CHOOSE i \in VideoIndices(streams) : \A j \in VideoIndices(streams) : i <= j]
LastVideo(streams) ==
    streams[CHOOSE i \in VideoIndices(streams) : \A j \in VideoIndices(streams) : j <= i]

\* the outcome of the call is the estimate made from record rec
OutcomeIsEstimateOf(rec) ==
    LET r == EstimateNbFrames(PyDict(rec), media_info.video_info)
    IN  /\ pc = "allocate" => (r.err = NoError /\ nb_frames = r.nb_frames)
        /\ pc = "raised" => error = r.err

\* C7 as claimed: with several video records in the probe output the frame
\* count is estimated from the first of them.
C7_FirstVideoStream ==
    (StreamSelected /\ VideoIndices(media_info.stream_info) # {}) =>
        /\ video_stream = PyDict(FirstVideo(media_info.stream_info))
        /\ OutcomeIsEstimateOf(FirstVideo(media_info.stream_info))

\* C7 amended: with several video records in the probe output the frame
\* count is estimated from the last of them in appearance order.
C7_LastVideoStream ==
    (StreamSelected /\ VideoIndices(media_info.stream_info) # {}) =>
        /\ video_stream = PyDict(LastVideo(media_info.stream_info))
        /\ OutcomeIsEstimateOf(LastVideo(media_info.stream_info))

C7_Witness ==
    /\ pc = "allocate"
    /\ Cardinality(VideoIndices(media_info.stream_info)) = 2
    /\ <<"nb_frames">> \in DOMAIN FirstVideo(media_info.stream_info)
    /\ FirstVideo(media_info.stream_info)[<<"nb_frames">>] = <<"1", "2", "0">>
    /\ nb_frames = 48

\* the error a missing video stream ends the call with (line 469)
NoVideoStreamError == AttributeErrorNoneGet

\* C8 as claimed: when no stream record is a video record the call ends,
\* before any transcoder invocation, with the no-video-stream error, and no
\* call that found a video stream ends with that same error.
C8_NoVideoStreamIsDistinct ==
    /\ (StreamSelected /\ VideoIndices(media_info.stream_info) = {}) =>
          /\ pc \in {"estimate", "raised"}
          /\ ffmpeg_calls = 0
          /\ pc = "raised" => error = NoVideoStreamError
    /\ (pc = "raised" /\ error = NoVideoStreamError) =>
          (StreamSelected /\ VideoIndices(media_info.stream_info) = {})

NbFramesLiterals == {<<"1", "2", "0">>, <<"4", "8">>}
LiteralValue(v) == IF v = <<"1", "2", "0">> THEN 120 ELSE 48

HasField(k) == video_stream.t = "dict" /\ k \in DOMAIN video_stream.d

\* C9: a video stream record whose nb_frames is a number gives exactly that
\* number as the frame count; r_frame_rate, duration and the format record
\* (present or not) play no part and cannot make the estimation fail.
C9_NbFramesTakenAsIs ==
    (/\ EstimatedFromRecord
     /\ HasField(<<"nb_frames">>)
     /\ video_stream.d[<<"nb_frames">>] \in NbFramesLiterals) =>
        /\ pc = "allocate"
        /\ error = NoError
        /\ nb_frames = LiteralValue(video_stream.d[<<"nb_frames">>])

C9_Witness ==
    /\ pc = "allocate"
    /\ HasField(<<"nb_frames">>)
    /\ video_stream.d[<<"nb_frames">>] = <<"1", "2", "0">>
    /\ HasField(<<"r_frame_rate">>)
    /\ video_stream.d[<<"r_frame_rate">>] = <<"2", "4">>
    /\ ~HasField(<<"duration">>)
    /\ media_info.video_info = None
    /\ nb_frames = 120

\* C10 as claimed: without a usable nb_frames, r_frame_rate "24/1" and
\* r_frame_rate "24" both give floor(10 * 24) = 240 frames for duration "10".
C10_RateRatioOrNumber ==
    (/\ EstimatedFromRecord
     /\ ~HasField(<<"nb_frames">>) \/ video_stream.d[<<"nb_frames">>] = NA
     /\ HasField(<<"r_frame_rate">>)
     /\ video_stream.d[<<"r_frame_rate">>] \in {<<"2", "4", "/", "1">>, <<"2", "4">>}
     /\ HasField(<<"duration">>)
     /\ video_stream.d[<<"duration">>] = <<"1", "0">>) =>
        /\ pc = "allocate"
        /\ error = NoError
        /\ nb_frames = 240

\* no nb_frames field in the selected record, or the "N/A" marker
NoUsableNbFrames ==
    ~HasField(<<"nb_frames">>) \/ video_stream.d[<<"nb_frames">>] = NA

\* the record of the [FORMAT] block has field k
FormatHasField(k) ==
    media_info.video_info.t = "dict" /\ k \in DOMAIN media_info.video_info.d

\* the frame rate and duration the fallbacks are specified to give, as
\* fractions <<n, d>>
FallbackRate ==
    IF FormatHasField(<<"TAG:framerate">>) THEN <<25, 1>> ELSE <<23976, 1000>>
FallbackDuration ==
    IF FormatHasField(<<"duration">>) THEN <<2, 1>> ELSE <<1, 1>>

\* C11 as claimed: the estimation ends with an integer and without an error
\* for every video stream record and probe result, the record without a
\* duration field and the probe output without a [FORMAT] block included; a
\* missing r_frame_rate is replaced by the format's TAG:framerate and then
\* by 23.976, a missing or "N/A" duration by the format's duration and then
\* by 1.0.
C11_EstimationNeverFails ==
    EstimatedFromRecord =>
        /\ pc = "allocate"
        /\ error = NoError
        /\ (/\ NoUsableNbFrames
            /\ ~HasField(<<"r_frame_rate">>)
            /\ ~HasField(<<"duration">>) \/ video_stream.d[<<"duration">>] = NA) =>
              nb_frames = IntOfFloat(FallbackDuration[1] * FallbackRate[1],
                                     FallbackDuration[2] * FallbackRate[2])

\* C12 as claimed: the estimated frame count is never negative, whatever
\* the sign of nb_frames, of the duration or of the frame rate.
C12_FrameCountNonNegative ==
    EstimatedFromRecord => (pc = "allocate" => nb_frames >= 0)

\* lines 507-509 have run
Planned == pc \notin {"get_video_info", "select_stream", "estimate",
                      "allocate", "raised"}

\* C13 as claimed: for every estimated frame count F the planned indices
\* are start = floor(0.10 F), mid = floor(0.50 F), end = floor(0.90 F) - 1,
\* with no clamping.
C13_PlanIsFloor ==
    Planned =>
        /\ start_frame = nb_frames \div 10
        /\ mid_frame = nb_frames \div 2
        /\ end_frame = ((9 * nb_frames) \div 10) - 1

\* ---- the wrappers
\* an output path is given: the call has an 'o' that is not the empty str
OutputGiven(kw) ==
    ODictGet(kw, <<"o">>).t = "str" /\ ODictGet(kw, <<"o">>).s # <<>>

\* the output path names a still image
StillOutput(kw) ==
    /\ OutputGiven(kw)
    /\ LET pieces == Split(ODictGet(kw, <<"o">>).s, ".")
       IN  pieces[Len(pieces)] \in StillFormats

\* the argument vector as specified
SpecifiedVector(kw) ==
    <<ffmpeg_command_path>>
    \o FlagArgs(ODictPop(kw, <<"o">>))
    \o (IF StillOutput(kw) THEN <<>> ELSE <<<<"-", "threads">>, num_of_threads>>)
    \o <<<<"-", "y">>>>
    \o (IF OutputGiven(kw) THEN <<ODictGet(kw, <<"o">>).s>> ELSE <<>>)

\* C14 as claimed: for every option dict and optional output path ffmpeg()
\* builds the vector [executable, "-key" value for each option (the flag
\* repeated before each element of a list value), "-threads" N exactly when
\* the output is not a jpg, jpeg, png or tga, "-y", the output path last
\* when one is given]; without an output path the vector is still built and
\* ends with "-y".
C14_VectorAsSpecified ==
    (call_pc # "idle" /\ tool = "ffmpeg") =>
        /\ call_error = NoError
        /\ call_pc # "raised"
        /\ args = SpecifiedVector(kwargs)

\* ---- the dispatch on the extension
\* the extension of the final path segment matches some member of formats,
\* letter case apart
MatchesFormat(path, formats) ==
    \E f \in formats : Lower(SplitExt(path)[2]) = Lower(f)

\* no probe, no transcoder call, no child process, no temporary name
NothingInvoked ==
    /\ pc = "get_video_info"
    /\ probe_streams = Unbound
    /\ ffmpeg_calls = 0
    /\ call_pc = "idle"
    /\ conv_pc = "idle"
    /\ spawned = 0
    /\ tmp_names = 0
    /\ files = {}

\* C17: generate_thumbnail and generate_media_for_web match the extension
\* of the final path segment, letter case apart, against the image formats
\* and the video formats; an image goes to the image method, a video to
\* the video method, and any other extension ends the call at once with
\* the unsupported-media error: no probe, no transcoder call, no temporary
\* file.
C17_DispatchOnExtension ==
    gen_pc # "idle" =>
        /\ MatchesFormat(file_full_path, image_formats) =>
              route = IF entry = "generate_thumbnail"
                      THEN "generate_image_thumbnail"
                      ELSE "generate_image_for_web"
        /\ MatchesFormat(file_full_path, video_formats) =>
              route = IF entry = "generate_thumbnail"
                      THEN "generate_video_thumbnail"
                      ELSE "generate_video_for_web"
        /\ (/\ ~MatchesFormat(file_full_path, image_formats)
            /\ ~MatchesFormat(file_full_path, video_formats)) =>
              /\ gen_pc = "raised"
              /\ gen_error = RuntimeErrorNotMedia
              /\ NothingInvoked

\* ---- the uploads
\* the Link reached from l over n thumbnail attributes, NoLink past the end
RECURSIVE Follow(_, _)
Follow(l, n) ==
    IF n = 0 \/ l = NoLink THEN l ELSE Follow(thumbnail[l], n - 1)

OutputReturned ==
    up_pc = "returned" /\ upload.method = "upload_version_output"

\* C18: the chain of the Link upload_version_output returns has no cycle
\* and at most two thumbnail steps; with neither derived Link the root has
\* no thumbnail; with both, the root's thumbnail is the web version and the
\* web version's thumbnail is the thumbnail Link, which has none; the
\* thumbnail Link is never the root's own thumbnail.
C18_ChainShape ==
    OutputReturned =>
        /\ up_result = link
        /\ Follow(link, 3) = NoLink
        /\ \A i, j \in 0..2 :
              (i < j /\ Follow(link, j) # NoLink) =>
                  Follow(link, i) # Follow(link, j)
        /\ (web_version_link = NoLink /\ thumbnail_link = NoLink) =>
              thumbnail[link] = NoLink
        /\ (web_version_link # NoLink /\ thumbnail_link # NoLink) =>
              /\ thumbnail[link] = web_version_link
              /\ thumbnail[web_version_link] = thumbnail_link
              /\ thumbnail[thumbnail_link] = NoLink
        /\ thumbnail[link] # "thumbnail_link"

C18_Witness ==
    /\ OutputReturned
    /\ web_outcome = "file"
    /\ thumb_outcome = "file"
    /\ Follow(link, 1) = "web_version_link"
    /\ Follow(link, 2) = "thumbnail_link"
    /\ Follow(link, 3) = NoLink

\* a generate call of the upload ended on an unsupported type, or returned
\* a path the conversion left no file at
GenerationFailed ==
    \/ web_outcome \in {"RuntimeError", "nofile"}
    \/ thumb_outcome \in {"RuntimeError", "nofile"}

\* C19 as claimed: in upload_reference and in upload_version_output a
\* failure to generate the web version or the thumbnail does not end the
\* upload: no exception leaves the call, and the call returns the root
\* Link, appended to its parent, with the failed Link missing from the
\* chain.
C19_FailuresAbsorbed ==
    GenerationFailed =>
        /\ up_pc # "raised"
        /\ up_error = NoError
        /\ up_pc = "returned" =>
              /\ up_result = "link"
              /\ parent = <<"link">>
              /\ Follow(link, 2) = NoLink

C17_Witness ==
    /\ gen_pc = "raised"
    /\ entry = "generate_media_for_web"
    /\ file_full_path = <<"dir", ".", "mov", "/", "shot", ".", "txt">>
    /\ gen_error = RuntimeErrorNotMedia
    /\ NothingInvoked

C16_ConvertsToReplacedPath ==
    conv_pc # "idle" =>
        LET replaced == SplitExt(converter.output_path)[1]
                            \o TargetExtension(converter.name)
        IN  /\ conv_pc # "raised"
            /\ conv_error = NoError
            /\ spawned = 1
            /\ args[Len(args)] = replaced
            /\ conv_pc = "returned" => conv_result = PyStr(replaced)

PathsOf(i) == {invocations[i].paths[k] : k \in 1..Len(invocations[i].paths)}

FormatOpens(lines) == {i \in 1..Len(lines) : Strip(lines[i]) = FORMAT_OPEN}
\* the lines between the last [FORMAT] line and the closing line
LastBlockBody(lines) ==
    LET last == CHOOSE i \in FormatOpens(lines) :
                    \A j \in FormatOpens(lines) : j <= i
    IN  SubSeq(lines, last + 1, Len(lines) - 1)

\* C21 as claimed: when the format output holds more than one [FORMAT]
\* block, the format record get_video_info returns holds exactly the fields
\* of the last block; no field of an earlier block is left in it.
C21_LastFormatBlockOnly ==
    (ParserRan /\ Cardinality(FormatOpens(probe_format)) > 1) =>
        /\ error = NoError
        /\ media_info.video_info =
              PyDict(RecordOf(LastBlockBody(probe_format), EmptyDict))

\* ---- the parent collection
\* C22: in upload_reference and upload_version_output the root Link is
\* appended to the parent collection exactly once per call, and only after
\* both derivative stages have finished; a call that an error of a
\* derivative stage ended, and a call still in its stages, leaves the parent
\* collection as it was.
C22_AppendedOnceAtEnd ==
    /\ up_pc = "returned" => parent = <<link>>
    /\ up_pc # "returned" => parent = <<>>
    /\ parent # <<>> => (web_outcome # "none" /\ thumb_outcome # "none")

\* a call that returned after a stage failed and was absorbed
C22_Witness ==
    /\ up_pc = "returned"
    /\ parent = <<"link">>
    /\ web_outcome = "RuntimeError"
    /\ thumb_outcome = "RuntimeError"

\* ---- what the substitution policy leaves
\* C23: if at least one of the three extractions produced a file, then
\* after the substitution policy each of the three resolved paths names an
\* existing file: the composite call gets no missing input.
C23_ResolvedPathsExist ==
    (pc \in {"composite", "cleanup"} /\ extracted # {}) =>
        \A k \in 1..3 : Exists(Resolved[k], files)

\* only the end frame was extracted and all three paths became its path
C23_Witness ==
    /\ pc = "composite"
    /\ extracted = {AllocEnd}
    /\ Resolved = <<AllocEnd, AllocEnd, AllocEnd>>
    /\ AllocEnd \in files

\* C24: whatever extractions succeeded, after the substitution policy each
\* resolved path is one of the three allocated frame paths, and a slot whose
\* own extraction succeeded still holds its own path: only the path of a
\* slot whose file is missing is replaced.
C24_OnlyMissingReplaced ==
    AfterSubstitution =>
        \A k \in 1..3 :
            /\ Resolved[k] \in {AllocStart, AllocMid, AllocEnd}
            /\ allocated[k] \in extracted => Resolved[k] = allocated[k]

\* start and end were extracted, mid was not: mid took the start path and
\* the other two kept theirs
C24_Witness ==
    /\ pc = "composite"
    /\ extracted = {AllocStart, AllocEnd}
    /\ Resolved = <<AllocStart, AllocStart, AllocEnd>>

\* ---- the order of the planned indices
\* C25: for every frame count F >= 3 the planned indices satisfy
\* 0 <= start <= mid <= end < F; for F = 2 the end index, 0, is below the
\* mid index, 1; for F = 0 and F = 1 the end index is -1.
C25_IndicesOrdered ==
    Planned =>
        /\ nb_frames >= 3 =>
              /\ 0 <= start_frame
              /\ start_frame <= mid_frame
              /\ mid_frame <= end_frame
              /\ end_frame < nb_frames
        /\ nb_frames = 2 => (end_frame = 0 /\ mid_frame = 1)
        /\ nb_frames \in {0, 1} => end_frame = 0 - 1

\* the smallest frame count with ordered indices: 0, 1, 1
C25_Witness ==
    /\ Planned
    /\ nb_frames = 3
    /\ <<start_frame, mid_frame, end_frame>> = <<0, 1, 1>>

====
